---- MODULE Spec2Model ----
(***************************************************************************)
(* Model of the reminder bot of server/src/bot.ts: one websocket session   *)
(* (State, executeMessage, clearAllReminders, the timer callbacks armed    *)
(* with setTimeout and the 'message' / 'close' handlers).                  *)
(*                                                                         *)
(* Strings the code inspects are modelled by what the code does with them: *)
(*   - quantity and unit tokens are sequences of one-character strings, so *)
(*     that startsWith, toLowerCase and Number are computed;               *)
(*   - a reminder text is a sequence of words, so that the whole-word      *)
(*     replacements of "my" and "me" are computed; the empty string is <<>>*)
(*     (the only falsy text).                                              *)
(***************************************************************************)
EXTENDS Integers, Sequences, FiniteSets, TLC

VARIABLES
  reminders,      \* state.reminders: sequence of [id, text, seconds, timeout]
  nextId,         \* state.nextId
  dialogHistory,  \* state.dialogHistory: sequence of [id, quantity, unit, text]
  userModel,      \* state.userModel: function text -> seconds
  timers,         \* armed, not yet fired, not cleared setTimeout callbacks
  nextTid,        \* identity of the next NodeJS.Timeout object
  open,           \* the websocket is open ('close' has not been emitted)
  msg,            \* the last message given to executeMessage
  reply,          \* the value executeMessage returned for msg
  sent,           \* what the last timer callback sent with state.ws.send
  fired,          \* the timer whose callback ran in the last step
  scheduled,      \* the ids of the reminders pushed onto state.reminders, in order
  asked,          \* the "Should I remember ..." questions sent so far
                  \* (recorded by SpecAsked only)
  conv            \* a quantity token and a unit token, and their conversion

vars == <<reminders, nextId, dialogHistory, userModel, timers, nextTid, open,
          msg, reply, sent, fired, scheduled, asked, conv>>

session == <<reminders, nextId, dialogHistory, userModel, timers, nextTid, open,
             scheduled>>

---------------------------------------------------------------------------
(* Bounds *)

MaxId == 2          \* ids handed out in one session
MaxTimers == 2      \* setTimeout calls in one session
MaxDigits == 2      \* length of a numeric quantity token

---------------------------------------------------------------------------
(* JavaScript values *)

Undefined == "undefined"
NoNumber == -1      \* an undefined number field

\* enum TimeUnits
none == "none"
seconds == "second"
minutes == "minute"
hours == "hour"
TimeUnits == {none, seconds, minutes, hours}

Truthy(n) == n # NoNumber /\ n # 0          \* a number | undefined in a condition
TruthyText(t) == t # <<>>                   \* a string in a condition

Last(s) == s[Len(s)]

---------------------------------------------------------------------------
(* Parsing *)

Digits == {"0", "1", "2", "3", "4", "5", "6", "7", "8", "9"}

DigitValue(c) ==
  CASE c = "0" -> 0 [] c = "1" -> 1 [] c = "2" -> 2 [] c = "3" -> 3
    [] c = "4" -> 4 [] c = "5" -> 5 [] c = "6" -> 6 [] c = "7" -> 7
    [] c = "8" -> 8 [] c = "9" -> 9

\* Number(token) for a token of decimal digits
RECURSIVE Number(_)
Number(token) ==
  IF token = <<>> THEN 0
  ELSE 10 * Number(SubSeq(token, 1, Len(token) - 1)) + DigitValue(Last(token))

startsWith(s, prefix) ==
  Len(s) >= Len(prefix) /\ SubSeq(s, 1, Len(prefix)) = prefix

LowerChar(c) ==
  CASE c = "S" -> "s" [] c = "E" -> "e" [] c = "C" -> "c" [] c = "O" -> "o"
    [] c = "N" -> "n" [] c = "D" -> "d" [] c = "M" -> "m" [] c = "I" -> "i"
    [] c = "U" -> "u" [] c = "T" -> "t" [] c = "H" -> "h" [] c = "R" -> "r"
    [] OTHER -> c

toLowerCase(s) == [i \in 1..Len(s) |-> LowerChar(s[i])]

parseQuantity(quantity) ==
  IF startsWith(quantity, <<"a">>) THEN 1 ELSE Number(quantity)

parseUnit(unit) ==
  IF startsWith(toLowerCase(unit), <<"s", "e", "c">>) THEN seconds
  ELSE IF startsWith(toLowerCase(unit), <<"m", "i", "n">>) THEN minutes
  ELSE IF startsWith(toLowerCase(unit), <<"h", "o", "u", "r">>) THEN hours
  ELSE none

\* switch without break: the minutes case falls through into the hours case
convertDurationToSeconds(quantity, unit) ==
  LET afterMinutes == IF unit = minutes THEN quantity * 60 ELSE quantity
  IN  IF unit = minutes \/ unit = hours THEN afterMinutes * 3600
      ELSE afterMinutes

\* text.replace(/\bmy\b/g, 'your').replace(/\bme\b/g, 'you')
replaceWord(w) == IF w = "my" THEN "your" ELSE IF w = "me" THEN "you" ELSE w

replaceMyMe(text) == [i \in 1..Len(text) |-> replaceWord(text[i])]

---------------------------------------------------------------------------
(* Inputs: what the intents' regular expressions can capture *)

\* the text group of add-reminder: "remind me about  in a minute" captures ""
Texts == {<<>>, <<"tea", "for", "me">>}

\* the text group of add-reminder-no-time: the parser trims the utterance, and
\* the pattern needs a space after about/of, so the capture is never empty
NoTimeTexts == Texts \ {<<>>}

\* <quantity> <unit> as captured by the named groups
DurationTokens ==
  {<<<<"0">>, <<"s", "e", "c", "o", "n", "d", "s">>>>,
   <<<<"2">>, <<"s", "e", "c", "o", "n", "d", "s">>>>,
   <<<<"a">>, <<"M", "i", "n", "u", "t", "e">>>>,
   <<<<"a", "n">>, <<"h", "o", "u", "r">>>>}

\* type Message
Message(kind, text, quantity, unit, id, confirm) ==
  [kind |-> kind, text |-> text, quantity |-> quantity, unit |-> unit,
   id |-> id, confirm |-> confirm]

NoMessage == Message("none", <<>>, NoNumber, Undefined, 0, FALSE)

\* the strings executeMessage returns, by template and interpolated values
Reply(kind, text, secs, unit, id, rows) ==
  [kind |-> kind, text |-> text, seconds |-> secs, unit |-> unit, id |-> id,
   rows |-> rows]

Plain(kind) == Reply(kind, <<>>, NoNumber, "", 0, <<>>)

NoReply == Plain("none")
UndefinedReply == Plain(Undefined)
helpMessage == Plain("I am a reminder bot, ...")
Fallback == Plain("I'm sorry, I don't understand what you mean.")
NoReminders == Plain("You have no reminders.")
ClearedAll == Plain("Ok, I have cleared all of your reminders.")
ConsiderItDone == Plain("Consider it done.")
IWont == Plain("Alright, I won't.")

\* const unit = seconds === 1 ? 'second' : 'seconds'
unitWord(secs) == IF secs = 1 THEN "second" ELSE "seconds"

\* `Ok, I will remind you about ${text} in ${seconds} ${unit}.`
OkRemind(text, secs) ==
  Reply("Ok, I will remind you about", text, secs, unitWord(secs), 0, <<>>)

\* `Ok, I will remind you about your ${text} in ${seconds} ${unit}.`
OkRemindYour(text, secs) ==
  Reply("Ok, I will remind you about your", text, secs, unitWord(secs), 0, <<>>)

\* `How long does your ${text} take?`
HowLong(text) == Reply("How long does your ... take?", text, NoNumber, "", 0, <<>>)

\* `There is no reminder with id ${message.id}.`
NoSuchReminder(id) == Reply("There is no reminder with id", <<>>, NoNumber, "", id, <<>>)

\* `Ok, I will not remind you to ${reminder.text}.`
WillNotRemind(text) == Reply("Ok, I will not remind you to", text, NoNumber, "", 0, <<>>)

\* the table of list-reminders: one row per reminder, in list order (the
\* seconds-remaining column depends on the wall clock and is left out)
Table(rs) ==
  Reply("table", <<>>, NoNumber, "", 0,
        [i \in 1..Len(rs) |-> [id |-> rs[i].id, text |-> rs[i].text]])

\* what a timer callback sends
Note(kind, text, secs) == [kind |-> kind, text |-> text, seconds |-> secs]

ItIsTime(text) == Note("It is time for your", text, NoNumber)
ShouldIRemember(text, secs) == Note("Should I remember that", text, secs)

\* type Reminder; date is now + seconds, timeout the Timeout object
Reminder(id, text, secs, timeout) ==
  [id |-> id, text |-> text, seconds |-> secs, timeout |-> timeout]

\* type ReminderInfo
ReminderInfo(id, quantity, unit, text) ==
  [id |-> id, quantity |-> quantity, unit |-> unit, text |-> text]

\* a callback armed by setTimeout in the case `from` of executeMessage
Timer(tid, id, text, secs, from) ==
  [tid |-> tid, id |-> id, text |-> text, seconds |-> secs, from |-> from]

NoTimer == Timer(0, 0, <<>>, 0, "none")

NoConv == [stage |-> "none", quantity |-> <<>>, unit |-> <<>>,
           q |-> NoNumber, u |-> Undefined, seconds |-> NoNumber]

EmptyMap == [t \in {} |-> 0]

has(map, key) == key \in DOMAIN map

set(map, key, value) == [t \in DOMAIN map \cup {key} |->
                           IF t = key THEN value ELSE map[t]]

---------------------------------------------------------------------------
(* const state: State = { nextId: 1, reminders: [], ws, dialogHistory: [],
   userModel: new Map() } *)

Init ==
  /\ reminders = <<>>
  /\ nextId = 1
  /\ dialogHistory = <<>>
  /\ userModel = EmptyMap
  /\ timers = {}
  /\ nextTid = 1
  /\ open = TRUE
  /\ msg = NoMessage
  /\ reply = NoReply
  /\ sent = <<>>
  /\ fired = NoTimer
  /\ scheduled = <<>>
  /\ asked = {}
  /\ conv = NoConv

\* ws.on('message'): the reply of executeMessage is sent; no callback ran
Turn(message, result) ==
  /\ msg' = message
  /\ reply' = result
  /\ sent' = <<>>
  /\ fired' = NoTimer
  /\ UNCHANGED <<open, asked, conv>>

\* setTimeout(callback, seconds * 1000)
setTimeout(id, text, secs, from) ==
  /\ timers' = timers \cup {Timer(nextTid, id, text, secs, from)}
  /\ nextTid' = nextTid + 1

\* state.reminders.push({ id, date, text, timeout })
push(id, text, secs) ==
  /\ reminders' = Append(reminders, Reminder(id, text, secs, nextTid))
  /\ scheduled' = Append(scheduled, id)

---------------------------------------------------------------------------
(* executeMessage *)

Help ==
  /\ open
  /\ Turn(Message("help", <<>>, NoNumber, Undefined, 0, FALSE), helpMessage)
  /\ UNCHANGED session

AddReminder ==
  /\ open
  /\ nextId <= MaxId
  /\ nextTid <= MaxTimers
  /\ \E t \in Texts, d \in DurationTokens :
       LET message == Message("add-reminder", t, parseQuantity(d[1]), parseUnit(d[2]), 0, FALSE)
           quantity == message.quantity
           timeUnit == message.unit
           text == replaceMyMe(message.text)
           id == nextId
           secs == convertDurationToSeconds(quantity, timeUnit)
       IN  /\ nextId' = nextId + 1
           /\ dialogHistory' =
                Append(dialogHistory, ReminderInfo(id, quantity, timeUnit, text))
           /\ setTimeout(id, text, secs, "add-reminder")
           /\ push(id, text, secs)
           /\ Turn(message, OkRemind(text, secs))
           /\ UNCHANGED userModel

\* rememberedSeconds with a fault: the lookup never finds the subject
rememberedSecondsMiss(map, text) == NoNumber

\* userModel.has(text) ? userModel.get(text) : undefined
rememberedSeconds(map, text) == IF has(map, text) THEN map[text] ELSE NoNumber

AddReminderNoTime ==
  /\ open
  /\ nextId <= MaxId
  /\ \E t \in NoTimeTexts :
       LET message == Message("add-reminder-no-time", t, NoNumber, Undefined,
                              0, FALSE)
           text == replaceMyMe(message.text)
           id == nextId
           secs == rememberedSeconds(userModel, text)
       IN  /\ nextId' = nextId + 1
           /\ dialogHistory' =
                Append(dialogHistory, ReminderInfo(id, NoNumber, Undefined, text))
           /\ IF ~Truthy(secs)
              THEN /\ Turn(message, HowLong(text))
                   /\ UNCHANGED <<reminders, timers, nextTid, scheduled>>
              ELSE /\ nextTid <= MaxTimers
                   /\ setTimeout(id, text, secs, "add-reminder-no-time")
                   /\ push(id, text, secs)
                   /\ Turn(message, OkRemind(text, secs))
           /\ UNCHANGED userModel

\* fillCurrent with a fault: the entry is taken from the head of the history
fillCurrentHead(history, quantity, timeUnit) ==
  [history EXCEPT ![1] = [@ EXCEPT !.quantity = quantity, !.unit = timeUnit]]

\* currentReminder.quantity = quantity; currentReminder.unit = timeUnit, on
\* the last entry of the history
fillCurrent(history, quantity, timeUnit) ==
  [history EXCEPT ![Len(history)] =
     [@ EXCEPT !.quantity = quantity, !.unit = timeUnit]]

TimeSpec ==
  /\ open
  /\ \E d \in DurationTokens :
       LET message == Message("time", <<>>, parseQuantity(d[1]), parseUnit(d[2]),
                              0, FALSE)
           quantity == message.quantity
           timeUnit == message.unit
       IN  IF Len(dialogHistory) = 0
           THEN /\ Turn(message, Fallback)
                /\ UNCHANGED session
           ELSE LET currentReminder == Last(dialogHistory)
                    secs == convertDurationToSeconds(quantity, timeUnit)
                    id == currentReminder.id
                    text == currentReminder.text
                IN  /\ nextTid <= MaxTimers
                    /\ dialogHistory' = fillCurrent(dialogHistory, quantity, timeUnit)
                    /\ setTimeout(id, text, secs, "time")
                    /\ IF TruthyText(text)
                       THEN push(id, text, secs)
                       ELSE UNCHANGED <<reminders, scheduled>>
                    /\ Turn(message, OkRemindYour(text, secs))
                    /\ UNCHANGED <<nextId, userModel>>

ListReminders ==
  /\ open
  /\ Turn(Message("list-reminders", <<>>, NoNumber, Undefined, 0, FALSE),
          IF Len(reminders) = 0 THEN NoReminders ELSE Table(reminders))
  /\ UNCHANGED session

\* clearAllReminders with a fault: the timeouts are cleared but the list is
\* not replaced by the empty one
clearAllRemindersKeepsList ==
  /\ timers' = {t \in timers :
                  \A i \in 1..Len(reminders) : reminders[i].timeout # t.tid}
  /\ reminders' = reminders

\* clearTimeout on the timeout of every entry of the list, then the list is
\* replaced by the empty one
clearAllReminders ==
  /\ timers' = {t \in timers :
                  \A i \in 1..Len(reminders) : reminders[i].timeout # t.tid}
  /\ reminders' = <<>>

\* ClearAllReminders with a fault: clearing everything restarts the ids
ClearAllRemindersRestartsIds ==
  /\ open
  /\ clearAllReminders
  /\ Turn(Message("clear-all-reminders", <<>>, NoNumber, Undefined, 0, FALSE),
          ClearedAll)
  /\ nextId' = 1
  /\ UNCHANGED <<dialogHistory, userModel, nextTid, scheduled>>

ClearAllReminders ==
  /\ open
  /\ clearAllReminders
  /\ Turn(Message("clear-all-reminders", <<>>, NoNumber, Undefined, 0, FALSE),
          ClearedAll)
  /\ UNCHANGED <<nextId, dialogHistory, userModel, nextTid, scheduled>>

\* find with a fault: (r) => r.id = id assigns instead of comparing, so the
\* first entry is found whatever its id
findAssign(rs, id) == IF Len(rs) > 0 THEN 1 ELSE 0

\* state.reminders.find((r) => r.id === id): index of the first match, 0 if none
find(rs, id) ==
  IF \E i \in 1..Len(rs) : rs[i].id = id
  THEN CHOOSE i \in 1..Len(rs) :
         rs[i].id = id /\ \A j \in 1..(i - 1) : rs[j].id # id
  ELSE 0

\* state.reminders.filter((r) => r !== reminder): drops the object at index i
without(rs, i) == SubSeq(rs, 1, i - 1) \o SubSeq(rs, i + 1, Len(rs))

ClearReminder ==
  /\ open
  /\ \E n \in 1..MaxId :
       LET message == Message("clear-reminder", <<>>, NoNumber, Undefined, n,
                              FALSE)
           i == find(reminders, message.id)
       IN  IF i = 0
           THEN /\ Turn(message, NoSuchReminder(message.id))
                /\ UNCHANGED session
           ELSE /\ timers' = {t \in timers : t.tid # reminders[i].timeout}
                /\ reminders' = without(reminders, i)
                /\ Turn(message, WillNotRemind(reminders[i].text))
                /\ UNCHANGED <<nextId, dialogHistory, userModel, nextTid, scheduled>>

\* if (text && unit && quantity) on the last entry of the dialog history
complete(info) ==
  TruthyText(info.text) /\ info.unit # Undefined /\ Truthy(info.quantity)

\* confirmReply with a fault: case "confirm" ends with a break, so nothing
\* is returned where the context is incomplete
confirmReplyBreak(history, confirm) ==
  IF Len(history) = 0 THEN Fallback
  ELSE IF complete(Last(history))
       THEN (IF confirm THEN ConsiderItDone ELSE IWont)
       ELSE UndefinedReply

\* confirmReply with a fault: the test for an empty dialog history is missing
\* and the confirmation is answered as if a context were complete
confirmReplyNoUnderflow(history, confirm) ==
  IF Len(history) = 0 \/ complete(Last(history))
  THEN (IF confirm THEN ConsiderItDone ELSE IWont)
  ELSE Fallback

\* the value returned by case "confirm"; where no return is reached control
\* falls through into case "unknown"
confirmReply(history, confirm) ==
  IF Len(history) = 0 THEN Fallback
  ELSE IF complete(Last(history))
       THEN (IF confirm THEN ConsiderItDone ELSE IWont)
       ELSE Fallback

\* confirmUserModel with a fault: the duration is remembered whatever the
\* answer was
confirmUserModelAnyAnswer(map, history, confirm) ==
  IF Len(history) # 0 /\ complete(Last(history))
  THEN set(map, Last(history).text,
           convertDurationToSeconds(Last(history).quantity, Last(history).unit))
  ELSE map

\* state.userModel after case "confirm"
confirmUserModel(map, history, confirm) ==
  IF Len(history) # 0 /\ complete(Last(history)) /\ confirm
  THEN set(map, Last(history).text,
           convertDurationToSeconds(Last(history).quantity, Last(history).unit))
  ELSE map

Confirm ==
  /\ open
  /\ \E c \in BOOLEAN :
       LET message == Message("confirm", <<>>, NoNumber, Undefined, 0, c)
       IN  /\ userModel' = confirmUserModel(userModel, dialogHistory, message.confirm)
           /\ Turn(message, confirmReply(dialogHistory, message.confirm))
           /\ UNCHANGED <<reminders, nextId, dialogHistory, timers, nextTid,
                          scheduled>>

\* Unknown with a fault: an utterance that is not understood drops the dialog
UnknownDropsDialog ==
  /\ open
  /\ Turn(Message("unknown", <<>>, NoNumber, Undefined, 0, FALSE), Fallback)
  /\ dialogHistory' = <<>>
  /\ UNCHANGED <<reminders, nextId, userModel, timers, nextTid, scheduled>>

Unknown ==
  /\ open
  /\ Turn(Message("unknown", <<>>, NoNumber, Undefined, 0, FALSE), Fallback)
  /\ UNCHANGED session

---------------------------------------------------------------------------
(* Timer callbacks *)

\* the second ws.send of a callback is guarded differently in each case
asks(t, map) ==
  CASE t.from = "add-reminder" -> ~has(map, t.text)
    [] t.from = "add-reminder-no-time" -> FALSE
    [] t.from = "time" -> TruthyText(t.text) /\ ~has(map, t.text)

callbackSends(t, map) ==
  <<ItIsTime(t.text)>> \o
  (IF asks(t, map) THEN <<ShouldIRemember(t.text, t.seconds)>> ELSE <<>>)

\* the questions among the notifications of a callback
questions(notes) ==
  {notes[i] : i \in {j \in 1..Len(notes) : notes[j].kind = "Should I remember that"}}

\* state.reminders.filter((r) => r.id !== id)
callbackReminders(rs, id) == LET Keep(r) == r.id # id IN SelectSeq(rs, Keep)

\* Timers run in the order of their expiry: a timer armed earlier with a
\* delay that is not longer runs first.
canFire(t) ==
  /\ t \in timers
  /\ \A o \in timers : ~(o.tid < t.tid /\ o.seconds <= t.seconds)

\* A callback is not tied to the connection: a timer that is still pending
\* after 'close' runs all the same, and its sends go to the closed socket.
Fire ==
  \E t \in timers :
    /\ canFire(t)
    /\ timers' = timers \ {t}
    /\ sent' = callbackSends(t, userModel)
    /\ fired' = t
    /\ reminders' = callbackReminders(reminders, t.id)
    /\ UNCHANGED <<nextId, dialogHistory, userModel, nextTid, open, msg, reply,
                   scheduled, asked, conv>>

\* the same callbacks, with the questions they send kept in asked
FireAsked ==
  \E t \in timers :
    /\ canFire(t)
    /\ timers' = timers \ {t}
    /\ sent' = callbackSends(t, userModel)
    /\ asked' = asked \cup questions(callbackSends(t, userModel))
    /\ fired' = t
    /\ reminders' = callbackReminders(reminders, t.id)
    /\ UNCHANGED <<nextId, dialogHistory, userModel, nextTid, open, msg, reply,
                   scheduled, conv>>

\* ws.on('close'); no 'message' event follows it
Close ==
  /\ open
  /\ open' = FALSE
  /\ clearAllReminders
  /\ sent' = <<>>
  /\ fired' = NoTimer
  /\ UNCHANGED <<nextId, dialogHistory, userModel, nextTid, msg, reply,
                 scheduled, asked, conv>>

Next ==
  \/ Help
  \/ AddReminder
  \/ AddReminderNoTime
  \/ TimeSpec
  \/ ListReminders
  \/ ClearAllReminders
  \/ ClearReminder
  \/ Confirm
  \/ Unknown
  \/ Fire
  \/ Close

Spec == Init /\ [][Next]_vars

NextAsked ==
  \/ Help
  \/ AddReminder
  \/ AddReminderNoTime
  \/ TimeSpec
  \/ ListReminders
  \/ ClearAllReminders
  \/ ClearReminder
  \/ Confirm
  \/ Unknown
  \/ FireAsked
  \/ Close

\* the session with the history of the questions asked
SpecAsked == Init /\ [][NextAsked]_vars

\* an armed timer elapses: the event loop runs the callback of a pending timer
SpecLive == Spec /\ WF_vars(Fire)

---------------------------------------------------------------------------
(* The duration normalizer on its own: the func of the "time" intent builds
   the message from the captured tokens, and executeMessage converts it *)

DigitStrings == UNION {[1..k -> Digits] : k \in 1..MaxDigits}

\* \d+|a|an
ConvQuantityTokens == DigitStrings \cup {<<"a">>, <<"a", "n">>}

\* (?:second|minute|hour)s? with the i flag
ConvUnitTokens ==
  {<<"s", "e", "c", "o", "n", "d">>, <<"s", "e", "c", "o", "n", "d", "s">>,
   <<"m", "i", "n", "u", "t", "e">>, <<"m", "i", "n", "u", "t", "e", "s">>,
   <<"h", "o", "u", "r">>, <<"h", "o", "u", "r", "s">>,
   <<"M", "i", "n", "u", "t", "e", "s">>, <<"H", "O", "U", "R">>}

InitConv ==
  /\ reminders = <<>>
  /\ nextId = 1
  /\ dialogHistory = <<>>
  /\ userModel = EmptyMap
  /\ timers = {}
  /\ nextTid = 1
  /\ open = TRUE
  /\ msg = NoMessage
  /\ reply = NoReply
  /\ sent = <<>>
  /\ fired = NoTimer
  /\ scheduled = <<>>
  /\ asked = {}
  /\ \E qt \in ConvQuantityTokens, ut \in ConvUnitTokens :
       conv = [NoConv EXCEPT !.stage = "tokens", !.quantity = qt, !.unit = ut]

\* { kind: "time", quantity: parseQuantity(quantity), unit: parseUnit(unit) }
ParseTokens ==
  /\ conv.stage = "tokens"
  /\ conv' = [conv EXCEPT !.stage = "message",
                          !.q = parseQuantity(conv.quantity),
                          !.u = parseUnit(conv.unit)]
  /\ UNCHANGED <<session, msg, reply, sent, fired, asked>>

\* const seconds = convertDurationToSeconds(quantity, timeUnit)
Convert ==
  /\ conv.stage = "message"
  /\ conv' = [conv EXCEPT !.stage = "seconds",
                          !.seconds = convertDurationToSeconds(conv.q, conv.u)]
  /\ UNCHANGED <<session, msg, reply, sent, fired, asked>>

NextConv == ParseTokens \/ Convert

SpecConv == InitConv /\ [][NextConv]_vars

---------------------------------------------------------------------------
(* Vocabulary of the properties *)

\* the conversion the specification states: seconds unchanged, minutes x60,
\* hours x3600
toSeconds(quantity, unit) ==
  CASE unit = seconds -> quantity
    [] unit = minutes -> quantity * 60
    [] unit = hours -> quantity * 3600
    [] OTHER -> quantity

\* a context whose text, quantity and unit are all filled in (0 included)
filledIn(info) ==
  info.text # <<>> /\ info.quantity # NoNumber /\ info.unit # Undefined

ids(rs) == {rs[i].id : i \in 1..Len(rs)}

handles(rs) == {rs[i].timeout : i \in 1..Len(rs)}

pending == {t.tid : t \in timers}

distinct(seq) ==
  \A i, j \in 1..Len(seq) : i # j => seq[i] # seq[j]

---------------------------------------------------------------------------
(* Properties *)

\* C1: every reminder scheduled in a session has an id no other reminder
\* scheduled in that session has: the entries of the active list have
\* pairwise different ids, and no id is scheduled twice over the session
\* (fired and cancelled reminders included).
C1_UniqueIds ==
  /\ distinct([i \in 1..Len(reminders) |-> reminders[i].id])
  /\ distinct(scheduled)

\* C2: the entries of the active list and the pending timers are in
\* one-to-one correspondence: every entry's timeout is pending, every
\* pending timer is the timeout of an entry, and no two entries share one.
C2_ListMatchesTimers ==
  /\ handles(reminders) = pending
  /\ Cardinality(handles(reminders)) = Len(reminders)

\* C3: after ClearReminder{id: N} was answered with the success reply, and
\* until the next user turn, the active list has no entry with id N and no
\* timer of a reminder with id N fires.
C3_ClearedIsGone ==
  (msg.kind = "clear-reminder" /\ reply.kind = "Ok, I will not remind you to")
    => /\ msg.id \notin ids(reminders)
       /\ fired.id # msg.id

\* C4: after clearAllReminders ran (by the command, until the next user
\* turn, or by the close of the connection, for ever) no timer is pending
\* and no timer callback runs.
C4_ClearAllCancelsAll ==
  (msg.kind = "clear-all-reminders" \/ ~open)
    => /\ timers = {}
       /\ fired = NoTimer

\* C5: AddReminderNoTime{X} with X not in Duration Memory schedules nothing
\* and replies with the question; when the next turn is TimeSpec{q, u},
\* exactly one reminder is scheduled, with the id and subject of that context
\* and a delay of q, q*60 or q*3600 seconds, and the reply states that number.
C5_DialogContinuity ==
  [][ /\ ( /\ msg'.kind = "add-reminder-no-time"
           /\ nextId' = nextId + 1
           /\ ~has(userModel, replaceMyMe(msg'.text)) )
         => /\ reminders' = reminders
            /\ timers' = timers
            /\ reply' = HowLong(replaceMyMe(msg'.text))
      /\ ( /\ reply.kind = "How long does your ... take?"
           /\ msg'.kind = "time" )
         => LET context == Last(dialogHistory)
                S == toSeconds(msg'.quantity, msg'.unit)
            IN  /\ reminders' =
                     Append(reminders, Reminder(context.id, context.text, S, nextTid))
                /\ timers' =
                     timers \cup {Timer(nextTid, context.id, context.text, S, "time")}
                /\ reply' = OkRemindYour(context.text, S)
    ]_vars

\* C6: convertDurationToSeconds(q, seconds) = q, (q, minutes) = q*60 and
\* (q, hours) = q*3600 for the quantities parseQuantity gives; ("5","minutes")
\* gives 300, ("a","hour") 3600 and ("10","seconds") 10.
C6_DurationConversion ==
  conv.stage = "seconds"
    => /\ conv.seconds = toSeconds(conv.q, conv.u)
       /\ (conv.quantity = <<"5">> /\ conv.unit = <<"m", "i", "n", "u", "t", "e", "s">>)
            => conv.seconds = 300
       /\ (conv.quantity = <<"a">> /\ conv.unit = <<"h", "o", "u", "r">>)
            => conv.seconds = 3600
       /\ (conv.quantity = <<"1", "0">> /\ conv.unit = <<"s", "e", "c", "o", "n", "d", "s">>)
            => conv.seconds = 10

\* C7: once a duration S is in Duration Memory for subject X, a later
\* AddReminderNoTime{X} schedules a reminder for X with delay S at once, adds
\* it to the active list and replies with the scheduling confirmation, not
\* with the question.
C7_MemoryReuse ==
  [][ ( /\ msg'.kind = "add-reminder-no-time"
        /\ nextId' = nextId + 1
        /\ has(userModel, replaceMyMe(msg'.text)) )
      => LET X == replaceMyMe(msg'.text)
             S == userModel[X]
         IN  /\ reminders' = Append(reminders, Reminder(nextId, X, S, nextTid))
             /\ timers' =
                  timers \cup {Timer(nextTid, nextId, X, S, "add-reminder-no-time")}
             /\ reply' = OkRemind(X, S)
             /\ reply' # HowLong(X)
    ]_vars

\* a remembered subject was asked for again and scheduled from memory
C7_Witness ==
  /\ msg.kind = "add-reminder-no-time"
  /\ has(userModel, replaceMyMe(msg.text))
  /\ reply = OkRemind(replaceMyMe(msg.text), userModel[replaceMyMe(msg.text)])
  /\ \E i \in 1..Len(reminders) :
       /\ reminders[i].id = nextId - 1
       /\ reminders[i].seconds = userModel[replaceMyMe(msg.text)]
       /\ reminders[i].timeout \in pending

\* C8: when the last entry of the dialog history has text, quantity and unit
\* filled in (a quantity of 0 included), Confirm(accepted=true) writes the
\* context's duration in seconds into Duration Memory under its text and
\* replies "Consider it done.", and Confirm(accepted=false) replies
\* "Alright, I won't.".
C8_ConfirmResolution ==
  (msg.kind = "confirm" /\ Len(dialogHistory) > 0 /\ filledIn(Last(dialogHistory)))
    => LET context == Last(dialogHistory)
       IN  IF msg.confirm
           THEN /\ reply = ConsiderItDone
                /\ has(userModel, context.text)
                /\ userModel[context.text] =
                     convertDurationToSeconds(context.quantity, context.unit)
           ELSE reply = IWont

\* C9: Duration Memory changes only in a Confirm(accepted=true) turn on a
\* complete active context; every other turn and every timer firing leaves
\* it unchanged, and its key set only grows.
C9_MemoryWritePath ==
  [][ /\ userModel' # userModel
         => /\ msg'.kind = "confirm"
            /\ msg'.confirm
            /\ fired' = NoTimer
            /\ Len(dialogHistory) > 0
            /\ filledIn(Last(dialogHistory))
            /\ reply' = ConsiderItDone
            /\ \A t \in DOMAIN userModel : userModel'[t] = userModel[t]
               \/ t = Last(dialogHistory).text
      /\ DOMAIN userModel \subseteq DOMAIN userModel'
    ]_vars

\* a confirmation has written a duration
C9_Witness ==
  /\ msg.kind = "confirm"
  /\ msg.confirm
  /\ reply = ConsiderItDone
  /\ has(userModel, Last(dialogHistory).text)

\* C10: executeMessage returns a defined reply for every message in every
\* reachable state, Confirm on an incomplete active context included.
C10_AlwaysOneReply ==
  msg.kind # "none"
    => /\ reply # UndefinedReply
       /\ reply # NoReply
       /\ reply.kind # Undefined

\* a confirmation arrived while the active context was incomplete
C10_Witness ==
  /\ msg.kind = "confirm"
  /\ Len(dialogHistory) > 0
  /\ ~complete(Last(dialogHistory))
  /\ reply = Fallback

\* a step in which executeMessage ran on a message of one of the kinds
turnOf(kinds) == msg'.kind \in kinds /\ open' /\ fired' = NoTimer

\* C11: with an empty dialog history, TimeSpec and Confirm reply with the
\* fixed fallback and leave the session state unchanged: no timer armed, no
\* reminder added, history still empty, memory and id counter as before.
C11_DialogUnderflow ==
  [][ (Len(dialogHistory) = 0 /\ turnOf({"time", "confirm"}))
      => /\ reply' = Fallback
         /\ UNCHANGED session
    ]_vars

\* a TimeSpec or a Confirm was answered on an empty dialog history
C11_Witness ==
  /\ msg.kind \in {"time", "confirm"}
  /\ Len(dialogHistory) = 0
  /\ reply = Fallback
  /\ timers = {}

\* C12: ClearReminder{id: N} when no entry of the active list has id N
\* replies "There is no reminder with id N." and leaves the session state
\* unchanged.
C12_NotFound ==
  [][ (turnOf({"clear-reminder"}) /\ msg'.id \notin ids(reminders))
      => /\ reply' = NoSuchReminder(msg'.id)
         /\ UNCHANGED session
    ]_vars

\* a ClearReminder for an unknown id was answered while reminders were listed
C12_Witness ==
  /\ msg.kind = "clear-reminder"
  /\ reply = NoSuchReminder(msg.id)
  /\ msg.id \notin ids(reminders)
  /\ Len(reminders) > 0
  /\ fired = NoTimer

\* C13: an Unknown command yields the fixed fallback reply and changes
\* nothing in the session state.
C13_UnknownIsInert ==
  [][ turnOf({"unknown"})
      => /\ reply' = Fallback
         /\ UNCHANGED session
    ]_vars

\* an Unknown command was answered in a session with a dialog and a timer
C13_Witness ==
  /\ msg.kind = "unknown"
  /\ reply = Fallback
  /\ Len(dialogHistory) > 0
  /\ timers # {}

\* C14: when ClearAllReminders is immediately followed by ListReminders,
\* the reply is "You have no reminders.": the active list is empty from the
\* ClearAllReminders turn until the next turn.
C14_ClearAllThenList ==
  [][ /\ msg.kind = "clear-all-reminders" => reminders = <<>>
      /\ (msg.kind = "clear-all-reminders" /\ turnOf({"list-reminders"}))
           => reply' = NoReminders
    ]_vars

\* ClearAllReminders was answered in a session that had scheduled reminders
C14_Witness ==
  /\ msg.kind = "clear-all-reminders"
  /\ reply = ClearedAll
  /\ Len(scheduled) > 0
  /\ reminders = <<>>

\* C15: when the timer of a scheduled reminder with subject X elapses, the
\* callback sends exactly one "It is time for your X!", then the question
\* "Should I remember that X takes S seconds?" if and only if X is absent
\* from Duration Memory, and removes that reminder from the active list while
\* leaving every other scheduled reminder in it.
C15_TimerFiring ==
  [][ (fired' \in timers /\ fired' \notin timers'
         /\ fired'.tid \in handles(reminders))
      => LET X == fired'.text
             S == fired'.seconds
             Other(r) == r.timeout # fired'.tid
         IN  /\ sent' = <<ItIsTime(X)>> \o
                          (IF has(userModel, X) THEN <<>>
                           ELSE <<ShouldIRemember(X, S)>>)
             /\ reminders' = SelectSeq(reminders, Other)
    ]_vars

\* C16: the dialog history is append-only: every step leaves it unchanged
\* or appends one entry (only AddReminder and AddReminderNoTime append), the
\* length never decreases, the order, ids and texts of the entries never
\* change, and only the last entry is filled in, by TimeSpec.
C16_HistoryAppendOnly ==
  [][ LET n == Len(dialogHistory)
          m == Len(dialogHistory')
      IN  /\ m \in {n, n + 1}
          /\ \A i \in 1..n :
               /\ dialogHistory'[i].id = dialogHistory[i].id
               /\ dialogHistory'[i].text = dialogHistory[i].text
          /\ \A i \in 1..(n - 1) : dialogHistory'[i] = dialogHistory[i]
          /\ m = n + 1
               => /\ turnOf({"add-reminder", "add-reminder-no-time"})
                  /\ SubSeq(dialogHistory', 1, n) = dialogHistory
          /\ (m = n /\ dialogHistory' # dialogHistory) => turnOf({"time"})
    ]_vars

\* a TimeSpec filled the last of two entries and left the first as it was
C16_Witness ==
  /\ msg.kind = "time"
  /\ Len(dialogHistory) = 2
  /\ dialogHistory[1].quantity = NoNumber
  /\ dialogHistory[2].quantity = msg.quantity
  /\ dialogHistory[2].unit = msg.unit

\* C17: Help, ListReminders, ClearAllReminders, ClearReminder and Unknown
\* leave dialog history, Duration Memory and the id counter unchanged; Help,
\* ListReminders and Unknown also leave the active list and the pending
\* timers unchanged.
C17_StatelessTurns ==
  [][ /\ turnOf({"help", "list-reminders", "clear-all-reminders",
                 "clear-reminder", "unknown"})
           => UNCHANGED <<dialogHistory, userModel, nextId>>
      /\ turnOf({"help", "list-reminders", "unknown"})
           => UNCHANGED <<reminders, timers>>
    ]_vars

\* a reminder was cancelled in a session with a dialog and a remembered
\* duration
C17_Witness ==
  /\ msg.kind = "clear-reminder"
  /\ reply.kind = "Ok, I will not remind you to"
  /\ Len(dialogHistory) > 0
  /\ userModel # EmptyMap
  /\ nextId > 1

\* C18: while the connection is open and timers keep firing, every reminder
\* placed in the active list eventually leaves it, and it leaves it only
\* because its own timer fired or because ClearReminder / ClearAllReminders
\* cancelled its timer: no reminder is removed while its own timer is pending.
C18_ReminderLifecycle ==
  /\ \A h \in 1..MaxTimers :
       (h \in handles(reminders)) ~> (h \notin handles(reminders))
  /\ [][ open'
         => \A i \in 1..Len(reminders) :
              reminders[i].timeout \notin handles(reminders')
                => /\ reminders[i].timeout \notin {t.tid : t \in timers'}
                   /\ \/ fired'.tid = reminders[i].timeout
                      \/ turnOf({"clear-reminder", "clear-all-reminders"})
       ]_vars

\* C19: whenever Confirm(accepted=true) writes an entry (X, S) into Duration
\* Memory, a timer callback has already sent the question "Should I
\* remember that X takes S seconds?" with the same X and the same S.
C19_ConfirmAnswersQuestion ==
  [][ (turnOf({"confirm"}) /\ msg'.confirm /\ reply' = ConsiderItDone)
      => LET X == Last(dialogHistory).text
         IN  /\ has(userModel', X)
             /\ ShouldIRemember(X, userModel'[X]) \in asked
    ]_vars

\* C20: whenever the reply of a turn is the scheduling confirmation "Ok, I
\* will remind you about ... in S second(s).", that turn added one reminder
\* to the active list, with a pending timer of delay S.
C20_ConfirmationMeansScheduled ==
  [][ ( /\ turnOf({"add-reminder", "add-reminder-no-time", "time"})
        /\ reply'.kind \in {"Ok, I will remind you about",
                            "Ok, I will remind you about your"} )
      => /\ Len(reminders') = Len(reminders) + 1
         /\ SubSeq(reminders', 1, Len(reminders)) = reminders
         /\ Last(reminders').seconds = reply'.seconds
         /\ \E t \in timers' \ timers :
              /\ t.tid = Last(reminders').timeout
              /\ t.seconds = reply'.seconds
    ]_vars

====
